---- MODULE Spec2Model ----
(***************************************************************************)
(* Number Duel (number_duel.py): the highscore store, the round loop of    *)
(* play_round, compute_score and the part of main that ties them together. *)
(***************************************************************************)
EXTENDS Integers, Sequences, FiniteSets, TLC

VARIABLES
    file,           \* content of HIGHSCORE_FILE: [kind, entries]
    now,            \* the wall clock read by time.time() and datetime.utcnow()
    pc,             \* position of the process
    difficulty,     \* difficulty_key of the current round
    secret,         \* play_round: secret
    attempts_left,  \* play_round: attempts_left
    start_time,     \* play_round: start_time
    elapsed,        \* play_round: elapsed, as last computed at the loop top
    guesses,        \* play_round: guesses
    submitted,      \* seconds into the round when get_int returned the last guess
    tips,           \* the half-of-range tips printed in the current round
    hint,           \* play_round: mh, the last value of give_hint
    result,         \* the dict returned by play_round
    outcome,        \* which return statement of play_round ended the round
    score,          \* main: score
    error,          \* exception raised by the last add_highscore call
    dropped,        \* entries cut off by [:50] in the last add_highscore call
    added,          \* the entry appended by the last add_highscore call
    rounds,         \* rounds started so far
    adds            \* add_highscore calls made on the store on its own

vars == <<file, now, pc, difficulty, secret, attempts_left, start_time, elapsed,
          guesses, submitted, tips, hint, result, outcome, score, error, dropped, added,
          rounds, adds>>

roundVars == <<difficulty, secret, attempts_left, start_time, elapsed,
               guesses, submitted, tips, hint, result, outcome>>

----------------------------------------------------------------------------
(* Bounds of the model *)

\* rounds played per run of main
MaxRounds == 1
\* last clock reading
MaxNow == 21
\* wrong guesses accepted in a mode without an attempt limit
MaxTimedGuesses == 4
\* largest attempt count handed to compute_score on its own
MaxArgAttempts == 12
\* add_highscore calls made on a prepared leaderboard
MaxAdds == 3
\* give_hint on its own is applied to all numbers up to this one, and to some
\* larger ones
MaxHintSmall == 30

----------------------------------------------------------------------------
(* Config / constants *)

\* Python's None, for "attempts" and "time_limit"
None == -1

DIFFICULTIES ==
    [ easy   |-> [min |-> 1, max |-> 50,   attempts |-> 10,   time_limit |-> None],
      medium |-> [min |-> 1, max |-> 200,  attempts |-> 8,    time_limit |-> None],
      hard   |-> [min |-> 1, max |-> 1000, attempts |-> 10,   time_limit |-> None],
      timed  |-> [min |-> 1, max |-> 500,  attempts |-> None, time_limit |-> 20] ]

Keys == {"easy", "medium", "hard", "timed"}

\* the [:50] of add_highscore
MaxEntries == 50

\* main: the default player name
Player == "Player1"

Max(a, b) == IF a >= b THEN a ELSE b

----------------------------------------------------------------------------
(* Utilities: highscores *)

MissingFile == [kind |-> "missing", entries |-> <<>>]

JsonFile(entries) == [kind |-> "json", entries |-> entries]

\* a file holding only the first k entries of an unfinished json.dump
TruncatedFile(entries, k) == [kind |-> "truncated", entries |-> SubSeq(entries, 1, k)]

\* a file whose content is JSON but no list: an object such as {"a": 1}
ObjectFile == [kind |-> "object", entries |-> <<>>]

\* the list load_highscores returns; what it returns for ObjectFile is no
\* list, see Loaded
load_highscores(f) ==
    IF f.kind = "missing" THEN <<>>
    ELSE IF f.kind = "json" THEN f.entries
    ELSE <<>>

\* the value load_highscores returns: json.load's value when json.load
\* returns, [] when the file is missing or json.load raises
Loaded(f) ==
    IF f.kind = "object"
    THEN [type |-> "dict", items |-> <<>>]
    ELSE [type |-> "list", items |-> load_highscores(f)]

\* places where a write of n entries is cut short
FailPoints(n) == {0, n \div 2, n}

\* what save_highscores can leave behind: [file, error]
save_highscores(f, entries) ==
    {[file |-> JsonFile(entries), error |-> "none"]}
    \cup {[file |-> f, error |-> "OSError"]}
    \cup {[file |-> TruncatedFile(entries, k), error |-> "OSError"] :
             k \in FailPoints(Len(entries))}

Entry(name, sc, key, date) ==
    [name |-> name, score |-> sc, difficulty |-> key, date |-> date]

\* no entry appended yet
NoEntry == Entry("", 0, "", 0)

Scores(entries) == {entries[i].score : i \in DOMAIN entries}

Highest(S) == CHOOSE m \in S : \A x \in S : x <= m

\* the entries of one score, in the order they have in the list; the variant
\* gives them in the opposite order, as a sort that is reversed afterwards does
WithScore_Reversed(entries, sc) ==
    LET hit(e) == e.score = sc
        found == SelectSeq(entries, hit)
    IN  [i \in 1..Len(found) |-> found[Len(found) + 1 - i]]

WithScore(entries, sc) ==
    LET hit(e) == e.score = sc
    IN  SelectSeq(entries, hit)

\* the stable sort, highest score first: score by score, each score's entries
\* in their order in the list
RECURSIVE SortDescending(_, _)
SortDescending(entries, S) ==
    IF S = {} THEN <<>>
    ELSE WithScore(entries, Highest(S)) \o SortDescending(entries, S \ {Highest(S)})

\* sorted(entries, key=lambda e: e["score"], reverse=True)
sorted(entries) == SortDescending(entries, Scores(entries))

\* entries[:50]; the variant keeps every entry
Top_All(entries) == entries

Top(entries) ==
    SubSeq(entries, 1, IF Len(entries) < MaxEntries THEN Len(entries) ELSE MaxEntries)

\* entries.append({...}) on the loaded leaderboard; the variants put the new
\* entry in front, or leave it out
Appended_Front(f, name, sc, key, date) ==
    <<Entry(name, sc, key, date)>> \o load_highscores(f)

Appended_Not(f, name, sc, key, date) == load_highscores(f)

Appended(f, name, sc, key, date) ==
    Append(load_highscores(f), Entry(name, sc, key, date))

\* the entries add_highscore hands to save_highscores
NewEntries(f, name, sc, key, date) ==
    Top(sorted(Appended(f, name, sc, key, date)))

\* entries.append raises on a loaded value that is no list, before anything
\* is written
add_highscore(name, sc, key) ==
    IF Loaded(file).type # "list"
    THEN /\ error' = "AttributeError"
         /\ UNCHANGED <<file, dropped, added>>
    ELSE LET entries == NewEntries(file, name, sc, key, now)
         IN  \E o \in save_highscores(file, entries) :
                 /\ file' = o.file
                 /\ error' = o.error
                 /\ dropped' = Len(load_highscores(file)) + 1 - Len(entries)
                 /\ added' = Entry(name, sc, key, now)

----------------------------------------------------------------------------
(* Game core *)

cfg == DIFFICULTIES[difficulty]

time_limit == cfg.time_limit

Mid(lo, hi) == (lo + hi) \div 2

\* the secrets random.randint is taken to draw
Secrets(key) ==
    LET c == DIFFICULTIES[key]
    IN  {c.min, Mid(c.min, c.max), Mid(c.min, c.max) + 1, c.max}

\* the guesses get_int is taken to return: the secret and one wrong number
GuessChoices ==
    {secret, IF secret = cfg.min THEN cfg.max ELSE cfg.min}

Abs(x) == IF x < 0 THEN 0 - x ELSE x

Min(a, b) == IF a <= b THEN a ELSE b

\* "diff <= max(1, (secret * 0.02 if secret else 2))", in hundredths; the
\* double secret * 0.02 is exactly secret / 50 wherever that is a whole number,
\* for every secret up to 10000
ExtremelyClose(diff, sec) ==
    100 * diff <= Max(100, IF sec # 0 THEN 2 * sec ELSE 200)

\* the closeness phrase; the variant tests the fixed distances first
Closeness_FixedFirst(diff, sec) ==
    IF diff <= 3 THEN "Very close."
    ELSE IF diff <= 10 THEN "Close."
    ELSE IF ExtremelyClose(diff, sec) THEN "You're extremely close!"
    ELSE "Not that close."

Closeness(diff, sec) ==
    IF ExtremelyClose(diff, sec) THEN "You're extremely close!"
    ELSE IF diff <= 3 THEN "Very close."
    ELSE IF diff <= 10 THEN "Close."
    ELSE "Not that close."

\* str(n)[::-1] for n >= 0: the decimal digits, the last one first
RECURSIVE Reversed(_)
Reversed(n) == IF n < 10 THEN <<n>> ELSE <<n % 10>> \o Reversed(n \div 10)

\* str(n): the decimal digits, the first one first
Str(n) == [i \in 1..Len(Reversed(n)) |-> Reversed(n)[Len(Reversed(n)) + 1 - i]]

\* sum(1 for a, b in zip(x, y) if a == b)
ZipMatches(x, y) == Cardinality({i \in 1..Min(Len(x), Len(y)) : x[i] = y[i]})

\* the digit matches of give_hint; the variant zips the strings as they are
Matches_FromLeft(sec, g) == ZipMatches(Str(sec), Str(g))

Matches(sec, g) == ZipMatches(Reversed(sec), Reversed(g))

NoHint == [basic |-> "", hl |-> "", digit_hint |-> <<>>]

\* the parts of the string give_hint returns; digit_hint holds the count when
\* the part in brackets is there
give_hint(sec, g, attempt, max_attempts) ==
    IF Abs(sec - g) = 0
    THEN [basic |-> "Correct!", hl |-> "", digit_hint |-> <<>>]
    ELSE [basic |-> Closeness(Abs(sec - g), sec),
          hl |-> IF g < sec THEN "higher" ELSE "lower",
          digit_hint |-> IF sec < 10000 /\ g < 10000 /\ Matches(sec, g) # 0
                         THEN <<Matches(sec, g)>>
                         ELSE <<>>]

NoResult == [win |-> FALSE, attempts |-> 0, secret |-> 0]

\* the variant reports the last guess in place of the secret
Result_LastGuess(win, gs, sec) ==
    [win |-> win, attempts |-> Len(gs),
     secret |-> IF gs = <<>> THEN sec ELSE gs[Len(gs)]]

Result(win, gs, sec) == [win |-> win, attempts |-> Len(gs), secret |-> sec]

\* "if elapsed > time_limit"; the variants are off by one either way, or
\* never find the time over
TimeUp_Late(e, limit) == e > limit + 1

TimeUp_Early(e, limit) == e >= limit

TimeUp_Never(e, limit) == FALSE

TimeUp(e, limit) == e > limit

\* "attempts_left is not None and attempts_left <= 0"; the variant allows one more
NoAttemptsLeft_Below(left) == left # None /\ left < 0

NoAttemptsLeft(left) == left # None /\ left <= 0

Half(sec, lo, hi) == IF sec <= Mid(lo, hi) THEN "lower" ELSE "upper"

\* "if len(guesses) == 3"; the variant repeats the tip on later guesses
TipDue_From(gs) == Len(gs) >= 3

TipDue(gs) == Len(gs) = 3

\* guesses.append(guess); the variant puts the guess in front
Record_Front(gs, g) == <<g>> \o gs

Record(gs, g) == Append(gs, g)

\* main, choice "1": choose_difficulty, then play_round up to its loop
StartRound(key, sec) ==
    /\ pc = "menu"
    /\ rounds < MaxRounds
    /\ rounds' = rounds + 1
    /\ difficulty' = key
    /\ secret' = sec
    /\ attempts_left' = DIFFICULTIES[key].attempts
    /\ start_time' = now
    /\ elapsed' = 0
    /\ guesses' = <<>>
    /\ submitted' = 0
    /\ tips' = <<>>
    /\ hint' = NoHint
    /\ result' = NoResult
    /\ outcome' = "AwaitingGuess"
    /\ pc' = "top"
    /\ UNCHANGED <<file, now, score, error, dropped, added, adds>>

\* play_round: the time check and the attempts check at the top of the loop
LoopTop ==
    /\ pc = "top"
    /\ elapsed' = IF time_limit # None THEN now - start_time ELSE elapsed
    /\ IF time_limit # None /\ TimeUp(elapsed', time_limit)
       THEN /\ result' = Result(FALSE, guesses, secret)
            /\ outcome' = "LostByTime"
            /\ pc' = "returned"
       ELSE IF NoAttemptsLeft(attempts_left)
       THEN /\ result' = Result(FALSE, guesses, secret)
            /\ outcome' = "LostByAttempts"
            /\ pc' = "returned"
       ELSE /\ pc' = "get_int"
            /\ UNCHANGED <<result, outcome>>
    /\ UNCHANGED <<file, now, difficulty, secret, attempts_left, start_time,
                   guesses, submitted, tips, hint, score, error, dropped, added, rounds, adds>>

\* "if attempts_left is not None: attempts_left -= 1" after a wrong guess; the
\* variant takes two attempts
Remaining_Two(left) == IF left # None THEN left - 2 ELSE left

Remaining(left) == IF left # None THEN left - 1 ELSE left

\* play_round: get_int returns g; the rest of the loop body
Guess(g) ==
    /\ pc = "get_int"
    /\ g = secret \/ attempts_left # None \/ Len(guesses) < MaxTimedGuesses
    /\ guesses' = Record(guesses, g)
    /\ submitted' = now - start_time
    /\ IF g = secret
       THEN /\ result' = Result(TRUE, guesses', secret)
            /\ outcome' = "Won"
            /\ pc' = "returned"
            /\ UNCHANGED <<attempts_left, tips, hint>>
       ELSE /\ hint' = give_hint(secret, g, Len(guesses'),
                              IF cfg.attempts # None THEN cfg.attempts ELSE 999)
            /\ attempts_left' = Remaining(attempts_left)
            /\ tips' = IF TipDue(guesses')
                       THEN Append(tips, [half |-> Half(secret, cfg.min, cfg.max),
                                          after |-> Len(guesses')])
                       ELSE tips
            /\ pc' = "top"
            /\ UNCHANGED <<result, outcome>>
    /\ UNCHANGED <<file, now, difficulty, secret, start_time, elapsed,
                   score, error, dropped, added, rounds, adds>>

BASE == [easy |-> 50, medium |-> 120, hard |-> 300, timed |-> 200]

\* the variant leaves out the "if not result['win']" return
compute_score_NoWinCheck(res, key) ==
    Max(10, BASE[key] + Max(0, 50 - res.attempts * 5))

\* the variant leaves out the inner max(0, ...)
compute_score_NoFloor(res, key) ==
    IF ~res.win THEN 0
    ELSE Max(10, BASE[key] + (50 - res.attempts * 5))

compute_score(res, key) ==
    IF ~res.win THEN 0
    ELSE Max(10, BASE[key] + Max(0, 50 - res.attempts * 5))

\* main: "if score > 0"; the variant stores a score of 0 as well
ShouldStore_Any(sc) == sc >= 0

ShouldStore(sc) == sc > 0

\* main: score the returned result and store it if the score is positive;
\* the locals of play_round are gone once it has returned
RoundDone ==
    /\ pc = "returned"
    /\ score' = compute_score(result, difficulty)
    /\ IF ShouldStore(score')
       THEN /\ add_highscore(Player, score', difficulty)
            /\ pc' = IF error' = "none" THEN "menu" ELSE "crashed"
       ELSE /\ pc' = "menu"
            /\ UNCHANGED <<file, error, dropped, added>>
    /\ secret' = 0
    /\ attempts_left' = None
    /\ start_time' = 0
    /\ elapsed' = 0
    /\ guesses' = <<>>
    /\ submitted' = 0
    /\ tips' = <<>>
    /\ hint' = NoHint
    /\ outcome' = "none"
    /\ UNCHANGED <<now, rounds, adds, difficulty, result>>

\* main, choice "4"
Quit ==
    /\ pc = "menu"
    /\ pc' = "exit"
    /\ UNCHANGED <<file, now, score, error, dropped, added, rounds, adds>>
    /\ UNCHANGED roundVars

\* what the handler of KeyboardInterrupt leaves of the file: it prints a line
\* and exits; the variant opens the file for writing on the way out
Unwound_Emptied(f) == TruncatedFile(load_highscores(f), 0)

Unwound(f) == f

\* Ctrl-C while input() blocks, in the menu or in get_int: KeyboardInterrupt
\* is no ValueError, so it leaves get_int, play_round and main and is caught
\* at the bottom of the file
Interrupt ==
    /\ pc \in {"menu", "get_int"}
    /\ pc' = "interrupted"
    /\ file' = Unwound(file)
    /\ UNCHANGED <<now, score, error, dropped, added, rounds, adds>>
    /\ UNCHANGED roundVars

\* the clock moves on while the process is alive: by the time limit of the
\* timed mode, or by a second more
TickSteps == {20, 21}

Tick(d) ==
    /\ pc \in {"menu", "top", "get_int", "returned", "store"}
    /\ now + d <= MaxNow
    /\ now' = now + d
    /\ UNCHANGED <<file, pc, score, error, dropped, added, rounds, adds>>
    /\ UNCHANGED roundVars

----------------------------------------------------------------------------
(* The program: main started on some stored leaderboard *)

OldEntry == Entry("Ann", 85, "easy", 0)

InitFiles == {MissingFile, JsonFile(<<OldEntry>>), TruncatedFile(<<OldEntry>>, 0)}

InitRound ==
    /\ difficulty = "easy"
    /\ secret = 0
    /\ attempts_left = None
    /\ start_time = 0
    /\ elapsed = 0
    /\ guesses = <<>>
    /\ submitted = 0
    /\ tips = <<>>
    /\ hint = NoHint
    /\ result = NoResult
    /\ outcome = "none"

Init ==
    /\ file \in InitFiles
    /\ now = 0
    /\ pc = "menu"
    /\ score = 0
    /\ error = "none"
    /\ dropped = 0
    /\ added = NoEntry
    /\ rounds = 0
    /\ adds = 0
    /\ InitRound

Next ==
    \/ \E key \in Keys : \E sec \in Secrets(key) : StartRound(key, sec)
    \/ LoopTop
    \/ \E g \in GuessChoices : Guess(g)
    \/ RoundDone
    \/ Quit
    \/ Interrupt
    \/ \E d \in TickSteps : Tick(d)

Spec == Init /\ [][Next]_vars

\* the same program when the loop top runs whenever control is there and
\* get_int returns some guess whenever it is asked for one; the clock and
\* Ctrl-C are under no such obligation
SpecFair ==
    /\ Spec
    /\ WF_vars(LoopTop)
    /\ WF_vars(\E g \in GuessChoices : Guess(g))

----------------------------------------------------------------------------
(* The highscore store on its own: add_highscore called again and again,   *)
(* starting without a stored leaderboard                                   *)

StoreScores == {10, 85}

StoreInitFiles == {MissingFile, TruncatedFile(<<>>, 0), JsonFile(<<>>)}

StoreInit ==
    /\ file \in StoreInitFiles
    /\ now = 0
    /\ pc = "store"
    /\ score = 0
    /\ error = "none"
    /\ dropped = 0
    /\ added = NoEntry
    /\ rounds = 0
    /\ adds = 0
    /\ InitRound

StoreAdd(sc, key) ==
    /\ pc = "store"
    /\ add_highscore(Player, sc, key)
    /\ UNCHANGED <<now, pc, score, rounds, adds>>
    /\ UNCHANGED roundVars

StoreNext == \E sc \in StoreScores : StoreAdd(sc, "easy")

SpecStore == StoreInit /\ [][StoreNext]_vars

----------------------------------------------------------------------------
(* The highscore store with a moving clock: a few add_highscore calls on a *)
(* leaderboard that earlier calls have built                               *)

\* n entries added at time 0, the first k with score 85, the others with 10
Board(n, k) ==
    [i \in 1..n |-> Entry(Player, IF i <= k THEN 85 ELSE 10, "easy", 0)]

BoardSizes == {0, 49, 50}

BoardInitFiles ==
    {MissingFile, TruncatedFile(Board(50, 1), 25), ObjectFile}
    \cup {JsonFile(Board(n, k)) : n \in BoardSizes, k \in {0, 1, 50}}

BoardInit ==
    /\ file \in BoardInitFiles
    /\ now = 0
    /\ pc = "store"
    /\ score = 0
    /\ error = "none"
    /\ dropped = 0
    /\ added = NoEntry
    /\ rounds = 0
    /\ adds = 0
    /\ InitRound

BoardAdd(sc, key) ==
    /\ pc = "store"
    /\ adds < MaxAdds
    /\ adds' = adds + 1
    /\ add_highscore(Player, sc, key)
    /\ UNCHANGED <<now, pc, score, rounds>>
    /\ UNCHANGED roundVars

BoardNext ==
    \/ \E sc \in StoreScores : BoardAdd(sc, "easy")
    \/ \E d \in TickSteps : Tick(d)

SpecBoard == BoardInit /\ [][BoardNext]_vars

----------------------------------------------------------------------------
(* compute_score on its own, applied to every result up to MaxArgAttempts  *)

ScoreArgs ==
    {[win |-> w, attempts |-> a, secret |-> 1] : w \in BOOLEAN, a \in 0..MaxArgAttempts}

ScoreInit ==
    /\ file = MissingFile
    /\ now = 0
    /\ pc = "scoring"
    /\ score = 0
    /\ error = "none"
    /\ dropped = 0
    /\ added = NoEntry
    /\ rounds = 0
    /\ adds = 0
    /\ difficulty \in Keys
    /\ secret = 0
    /\ attempts_left = None
    /\ start_time = 0
    /\ elapsed = 0
    /\ guesses = <<>>
    /\ submitted = 0
    /\ tips = <<>>
    /\ hint = NoHint
    /\ result \in ScoreArgs
    /\ outcome = "none"

ScoreCall ==
    /\ pc = "scoring"
    /\ score' = compute_score(result, difficulty)
    /\ pc' = "scored"
    /\ UNCHANGED <<file, now, error, dropped, added, rounds, adds>>
    /\ UNCHANGED roundVars

ScoreNext == ScoreCall

SpecScore == ScoreInit /\ [][ScoreNext]_vars

----------------------------------------------------------------------------
(* give_hint on its own, as play_round calls it *)

HintSamples ==
    {47, 50, 51, 98, 100, 102, 103, 104, 147, 150, 153, 154, 199, 200, 204,
     489, 490, 500, 510, 511, 979, 980, 1000}

HintArgs == (1..MaxHintSmall) \cup HintSamples

HintInit ==
    /\ file = MissingFile
    /\ now = 0
    /\ pc = "hinting"
    /\ score = 0
    /\ error = "none"
    /\ dropped = 0
    /\ added = NoEntry
    /\ rounds = 0
    /\ adds = 0
    /\ difficulty \in {"easy", "timed"}
    /\ secret \in HintArgs
    /\ attempts_left = None
    /\ start_time = 0
    /\ elapsed = 0
    /\ \E g \in HintArgs : guesses \in {<<g>>, <<1, g>>}
    /\ submitted = 0
    /\ tips = <<>>
    /\ hint = NoHint
    /\ result = NoResult
    /\ outcome = "none"

HintCall ==
    /\ pc = "hinting"
    /\ hint' = give_hint(secret, guesses[Len(guesses)], Len(guesses),
                         IF cfg.attempts # None THEN cfg.attempts ELSE 999)
    /\ pc' = "hinted"
    /\ UNCHANGED <<file, now, difficulty, secret, attempts_left, start_time, elapsed,
                   guesses, submitted, tips, result, outcome, score, error,
                   dropped, added, rounds, adds>>

HintNext == HintCall

SpecHint == HintInit /\ [][HintNext]_vars

----------------------------------------------------------------------------
(* Properties *)

Stored == load_highscores(file)

InRound == pc \in {"top", "get_int", "returned"}

Timed == InRound /\ time_limit # None

Limited == InRound /\ cfg.attempts # None

Wrong(gs) == Cardinality({i \in DOMAIN gs : gs[i] # secret})

\* C1: from a missing or empty store, whatever is added, the stored
\* leaderboard has at most 50 entries and its scores never increase down the
\* list.
C1_AtMostFiftySorted ==
    /\ Len(Stored) <= 50
    /\ \A i \in 1..(Len(Stored) - 1) : Stored[i].score >= Stored[i + 1].score

C1_Witness ==
    /\ error = "none"
    /\ dropped = 1
    /\ Len(Stored) = 50
    /\ Stored[1].score > Stored[50].score

\* C2: an add_highscore call that raises leaves the stored leaderboard as it
\* was before the call.
C2_FailedAddKeepsStored ==
    [][error' # "none" => load_highscores(file') = Stored]_vars

\* C3, as claimed: in a timed round no guess that get_int returned after the
\* limit had passed wins the round.
C3_LateGuessNeverWins ==
    (Timed /\ pc = "returned" /\ outcome = "Won") => submitted <= time_limit

\* C3, amended: in a timed round a guess is asked for, and compared with the
\* secret, only when the time read at the loop top before it was within the
\* limit.
C3_AskedWithinLimit ==
    (Timed /\ (pc = "get_int" \/ outcome = "Won")) => elapsed <= time_limit

C3_Witness ==
    /\ Timed
    /\ pc = "returned"
    /\ outcome = "Won"
    /\ elapsed <= time_limit
    /\ submitted > time_limit

C5_AttemptLimit ==
    [][ Limited =>
          /\ Len(guesses) <= cfg.attempts
          /\ (pc = "top" /\ pc' # "top") =>
                IF Wrong(guesses) = cfg.attempts
                THEN /\ pc' = "returned"
                     /\ outcome' = "LostByAttempts"
                     /\ guesses' = guesses
                ELSE /\ pc' = "get_int"
                     /\ outcome' # "LostByAttempts"
          /\ (pc = "get_int" /\ pc' # "get_int") => outcome' # "LostByAttempts" ]_vars

C5_Witness ==
    /\ pc = "returned"
    /\ difficulty = "medium"
    /\ outcome = "LostByAttempts"
    /\ Len(guesses) = 8

\* C6: whatever ended the round, the result holds the round's secret and the
\* number of recorded guesses, and says win exactly when the last recorded
\* guess is the secret.
C6_ResultIsTrue ==
    pc = "returned" =>
        /\ outcome \in {"Won", "LostByAttempts", "LostByTime"}
        /\ result.secret = secret
        /\ result.attempts = Len(guesses)
        /\ result.win <=> (guesses # <<>> /\ guesses[Len(guesses)] = secret)

C6_Witness ==
    /\ pc = "returned"
    /\ outcome = "LostByTime"
    /\ Len(guesses) = 2
    /\ result.secret = 500

\* C7, as claimed: the returned result holds the guess history.
C7_ResultHoldsGuesses ==
    pc = "returned" => ("guesses" \in DOMAIN result /\ result.guesses = guesses)

\* C7, amended: the history grows by one guess at its end each time get_int
\* returns, and the result holds only win, attempts and secret, attempts
\* being the length of the history.
C7_HistoryCounted ==
    [][ (pc = "get_int" /\ pc' \in {"top", "returned"}) =>
          /\ Len(guesses') = Len(guesses) + 1
          /\ SubSeq(guesses', 1, Len(guesses)) = guesses
          /\ pc' = "returned" =>
                /\ DOMAIN result' = {"win", "attempts", "secret"}
                /\ result'.attempts = Len(guesses') ]_vars

C7_Witness ==
    /\ pc = "returned"
    /\ Len(guesses) = 3
    /\ guesses[1] # guesses[3]
    /\ DOMAIN result = {"win", "attempts", "secret"}

\* C8, as claimed: the tip is printed once in every round with a third guess,
\* and in no other.
C8_TipWithEveryThirdGuess ==
    InRound => (Len(tips) = 1 <=> Len(guesses) >= 3) /\ Len(tips) <= 1

\* C8, amended: the tip is printed at most once, and exactly once, right
\* after the third guess, in the rounds whose third guess is wrong; it says
\* lower exactly when the secret is in the lower half of the range.
C8_TipAfterThirdWrongGuess ==
    InRound =>
        /\ Len(tips) <= 1
        /\ Len(tips) = 1 <=> (Len(guesses) >= 3 /\ guesses[3] # secret)
        /\ \A i \in DOMAIN tips :
              /\ tips[i].after = 3
              /\ tips[i].half \in {"lower", "upper"}
              /\ tips[i].half = "lower" <=> 2 * secret <= cfg.min + cfg.max

C8_Witness ==
    /\ InRound
    /\ Len(guesses) = 4
    /\ Len(tips) = 1
    /\ tips[1].half = "upper"

\* C9: when a round is over the stored leaderboard changes exactly if the
\* score is above 0, and then by the entry of that score; after a lost round
\* it is as before.
C9_StoredOnlyIfScored ==
    [][ (pc = "returned" /\ pc' # "returned") =>
          /\ outcome # "Won" => file' = file
          /\ score' <= 0 => file' = file
          /\ (score' > 0 /\ error' = "none") =>
                /\ Len(load_highscores(file')) = Len(Stored) + 1
                /\ \E i \in DOMAIN load_highscores(file') :
                      load_highscores(file')[i] = Entry(Player, score', difficulty, now) ]_vars

C9_Witness ==
    /\ pc = "menu"
    /\ rounds = 1
    /\ ~result.win
    /\ result.attempts = 10
    /\ score = 0
    /\ file = JsonFile(<<OldEntry>>)

\* C10: compute_score gives 0 for every lost result, whatever the difficulty
\* and the number of attempts.
C10_LostScoresZero ==
    (pc = "scored" /\ ~result.win) => score = 0

C10_Witness ==
    /\ pc = "scored"
    /\ ~result.win
    /\ difficulty = "hard"
    /\ result.attempts = 3
    /\ score = 0

\* C11: a won result with a >= 1 attempts scores the base of its difficulty
\* (easy 50, medium 120, hard 300, timed 200) plus 50 - 5a while that is
\* positive, never less than 10.
C11_WonScore ==
    (pc = "scored" /\ result.win /\ result.attempts >= 1) =>
        LET a == result.attempts
            base == CASE difficulty = "easy" -> 50
                      [] difficulty = "medium" -> 120
                      [] difficulty = "hard" -> 300
                      [] difficulty = "timed" -> 200
            bonus == IF 5 * a < 50 THEN 50 - 5 * a ELSE 0
        IN  /\ score = (IF base + bonus < 10 THEN 10 ELSE base + bonus)
            /\ score >= 10

C11_Witness ==
    /\ pc = "scored"
    /\ difficulty = "easy"
    /\ result.win
    /\ result.attempts = 3
    /\ score = 85

Contains(entries, e) == \E i \in DOMAIN entries : entries[i] = e

\* C12: after an add_highscore call that completes, the stored leaderboard
\* contains the new entry, unless the leaderboard was full and no stored
\* score was lower than the new one.
C12_AddedIsLoaded ==
    [][ (adds' = adds + 1 /\ error' = "none") =>
          \/ Contains(load_highscores(file'), added')
          \/ /\ Len(Stored) = 50
             /\ \A i \in DOMAIN Stored : Stored[i].score >= added'.score ]_vars

C12_Witness ==
    /\ adds >= 1
    /\ error = "none"
    /\ dropped = 1
    /\ added.date = 20
    /\ Contains(Stored, added)
    /\ Stored[1] # added

\* C14: among stored entries of one score, an entry added earlier stands
\* before an entry added later.
C14_TiesInInsertionOrder ==
    \A i, j \in DOMAIN Stored :
        (i < j /\ Stored[i].score = Stored[j].score) => Stored[i].date <= Stored[j].date

C14_Witness ==
    /\ adds >= 2
    /\ \E i \in DOMAIN Stored :
          /\ i + 2 <= Len(Stored)
          /\ Stored[i].score = Stored[i + 1].score
          /\ Stored[i].date = 0
          /\ Stored[i + 1].date = 20
          /\ Stored[i + 2].score < Stored[i].score

\* C20: on a leaderboard of 50 entries, an add whose score is not above the
\* lowest stored score leaves the stored leaderboard as it was; an add with a
\* higher score is stored and the last entry goes.
C20_FullBoardNeedsHigherScore ==
    [][ (adds' = adds + 1 /\ error' = "none" /\ Len(Stored) = 50) =>
          IF added'.score <= Stored[50].score
          THEN load_highscores(file') = Stored
          ELSE /\ Contains(load_highscores(file'), added')
               /\ Len(load_highscores(file')) = 50
               /\ \A i \in 1..49 : Contains(load_highscores(file'), Stored[i])
               /\ load_highscores(file') # Stored ]_vars

C20_Witness ==
    /\ adds >= 1
    /\ error = "none"
    /\ dropped = 1
    /\ Len(Stored) = 50
    /\ added.date = 21
    /\ added.score = Stored[50].score
    /\ ~Contains(Stored, added)

\* C13: whenever the file is missing or does not hold a leaderboard,
\* load_highscores returns the empty list, and add_highscore does not fail on
\* what was loaded.
C13_UnreadableStoreIsEmpty ==
    [][ (file.kind # "json" /\ adds' = adds + 1) =>
          /\ Loaded(file) = [type |-> "list", items |-> <<>>]
          /\ error' # "AttributeError" ]_vars

LastGuess == guesses[Len(guesses)]

\* C15: for a guess that is not the secret, with d the distance between them,
\* the hint says extremely close when d <= 1 or 50 d <= secret, else very
\* close when d <= 3, else close when d <= 10, else not close; it says higher
\* exactly when the guess is below the secret; nothing else enters.
C15_HintOfSecretAndGuess ==
    (pc = "hinted" /\ LastGuess # secret) =>
        LET d == IF secret > LastGuess THEN secret - LastGuess ELSE LastGuess - secret
        IN  /\ hint.basic = (IF d <= 1 \/ 50 * d <= secret THEN "You're extremely close!"
                             ELSE IF d <= 3 THEN "Very close."
                             ELSE IF d <= 10 THEN "Close."
                             ELSE "Not that close.")
            /\ hint.hl = (IF LastGuess < secret THEN "higher" ELSE "lower")

C15_Witness ==
    /\ pc = "hinted"
    /\ secret = 1000
    /\ LastGuess = 980
    /\ Len(guesses) = 2
    /\ hint.basic = "You're extremely close!"
    /\ hint.hl = "higher"

\* the places, counted from the right, where both numbers have a digit and
\* the digits are the same
SameDigitPlaces(a, b) ==
    {p \in 0..3 : /\ 10^p <= a
                  /\ 10^p <= b
                  /\ (a \div 10^p) % 10 = (b \div 10^p) % 10}

Places(a) == Cardinality({p \in 0..3 : 10^p <= a})

DigitHintIsCount ==
    LET n == Cardinality(SameDigitPlaces(secret, LastGuess))
    IN  /\ hint.digit_hint = (IF n > 0 THEN <<n>> ELSE <<>>)
        /\ n <= Places(secret)
        /\ n <= Places(LastGuess)

\* C16, as claimed: for every secret and guess, the hint holds the number of
\* equal digits counted from the right, and holds it exactly when that
\* number is not 0.
C16_DigitHintForEveryPair ==
    pc = "hinted" => DigitHintIsCount

\* C16, amended: the same for every guess that is not the secret.
C16_DigitHintForWrongGuess ==
    (pc = "hinted" /\ LastGuess # secret) => DigitHintIsCount

C16_Witness ==
    /\ pc = "hinted"
    /\ secret = 104
    /\ LastGuess = 204
    /\ hint.digit_hint = <<2>>

\* C17: no step of a round, from the draw of the secret to the return of the
\* result or to an interrupt of the guess request, changes the stored
\* leaderboard.
C17_RoundLeavesFile ==
    [][ (pc' \in {"top", "get_int", "returned", "interrupted"}) => file' = file ]_vars

C17_Witness ==
    /\ pc = "interrupted"
    /\ Len(guesses) >= 1
    /\ hint # NoHint
    /\ file = JsonFile(<<OldEntry>>)

\* C19: in a round with an attempt limit the attempts left are the limit
\* less the wrong guesses recorded, a correct guess taking none; and a
\* correct guess made as the last allowed one wins with that many attempts.
C19_AttemptsLeftCountsWrongGuesses ==
    Limited =>
        /\ attempts_left = cfg.attempts - Wrong(guesses)
        /\ (Len(guesses) = cfg.attempts /\ guesses[Len(guesses)] = secret /\ pc = "returned")
              => (outcome = "Won" /\ result.win /\ result.attempts = cfg.attempts)

C19_Witness ==
    /\ Limited
    /\ pc = "returned"
    /\ Len(guesses) = cfg.attempts
    /\ guesses[Len(guesses)] = secret
    /\ attempts_left = 1
    /\ outcome = "Won"

InLoop == pc \in {"top", "get_int"}

\* C18: while get_int returns a guess whenever asked, a round with an attempt
\* limit N leaves the loop, after at most N guesses whatever they are; and a
\* round with a time limit whose loop top is reached with the clock past the
\* limit returns as lost by time.
C18_RoundEnds ==
    /\ (Limited /\ InLoop) ~> (pc \in {"returned", "interrupted"})
    /\ [](Limited => Len(guesses) <= cfg.attempts)
    /\ (Timed /\ pc = "top" /\ now - start_time > time_limit)
          ~> (pc = "returned" /\ outcome = "LostByTime")

C18_Witness ==
    /\ Timed
    /\ pc = "returned"
    /\ outcome = "LostByTime"
    /\ Len(guesses) >= 1
    /\ elapsed > time_limit

====
